---------------------------- MODULE Spec2Model ----------------------------
(***************************************************************************)
(* Model of the draft engine of the YL Olympic Draft backend               *)
(* (src/backend/api/routes/draft.py, leagues.py, db/models.py).            *)
(*                                                                         *)
(* One league is modelled: every statement of the handlers filters by      *)
(* league_id, so leagues do not interact.  The database is PostgreSQL      *)
(* under its default READ COMMITTED isolation: every SQL statement of a    *)
(* request is one step that sees what is committed at that moment (plus    *)
(* the request's own pending writes), and a request's writes become        *)
(* visible to the others at its commit.  Requests run concurrently, one    *)
(* per slot of Procs.                                                      *)
(***************************************************************************)
EXTENDS Integers, Sequences, FiniteSets, TLC

(***************************************************************************)
(* Bounds of the model.                                                    *)
(***************************************************************************)
NumUsers == 3
NumProcs == 2

Users == 1..NumUsers
Procs == 1..NumProcs

\* The user who created the league: create_league inserts the league in
\* status lobby and auto-joins its creator as commissioner.
Commissioner == 1

(***************************************************************************)
(* The catalog (tables events and event_entries): reference data that no   *)
(* handler of the model writes.  An event's id is also its sort_order      *)
(* (events.sort_order is unique).  Two catalogs are explored: in the wide  *)
(* one, two events can be drafted by two members; in the narrow one, two   *)
(* events can be drafted by one member only, and the first of them has     *)
(* fewer entries than the other.                                           *)
(***************************************************************************)
Events == {1, 2, 3}

WideCatalog == (1 :> {1, 2, 3}) @@ (2 :> {5}) @@ (3 :> {1, 2, 3})

NarrowCatalog == (1 :> {1, 2}) @@ (2 :> {5}) @@ (3 :> {1, 2, 3})

\* The entry_keys the clients submit: two that events 1 and 3 have, and
\* one that only event 2 has.
SentKeys == {1, 2, 5}

\* event_entries.entry_name of (event, entry_key).
CatalogName(e, k) == 10 * e + k

\* The entry_name texts a client may send along with a pick.
ClientNames == {0, 11}

\* entry_key || '__AUTO_DUP__' || member_pos: a key no catalog entry has.
AutoDupKey(k, member_pos) == 100 * member_pos + k

(***************************************************************************)
(* Sequences from sets.                                                    *)
(***************************************************************************)
RECURSIVE SortBy(_, _)
\* The elements of S as a sequence in increasing order of key[x];
\* key is injective on S (an ORDER BY whose last column is a unique id).
SortBy(S, key) ==
    IF S = {} THEN <<>>
    ELSE LET m == CHOOSE x \in S : \A y \in S : key[x] <= key[y]
         IN  <<m>> \o SortBy(S \ {m}, key)

Reverse(s) == [i \in 1..Len(s) |-> s[Len(s) + 1 - i]]

Range(s) == {s[i] : i \in 1..Len(s)}

\* All orderings of the set S, as sequences without repetition.
Orderings(S) == {s \in [1..Cardinality(S) -> S] : Range(s) = S}

(***************************************************************************)
(* The state: the tables of the league, and the requests in flight.        *)
(***************************************************************************)
VARIABLES
    event_entries,   \* event_entries: the entry keys of every event
    invited,         \* the users who hold the invite code of the league
    status,          \* leagues.status: "lobby", "drafting" or "locked"
    draft_rounds,    \* leagues.draft_rounds, set by create_league
    members,         \* the user_id of every league_members row
    draft_position,  \* league_members.draft_position by user; 0 is NULL
    league_events,   \* the league_events row of each event; NoRow: no row
    draft_picks,     \* the rows of draft_picks
    req,             \* by request slot: the request being served
    response,        \* the response sent last
    now              \* the reading of the clock of the database

vars == <<event_entries, invited, status, draft_rounds, members,
          draft_position, league_events, draft_picks, req, response, now>>

\* The entry keys of event e.
EntryKeys(e) == event_entries[e]

\* events.is_team_event: event 3 is a team event, the others are individual.
IsTeamEvent(e) == e = 3

\* event_entries.is_team of the entry k of event e.  No constraint ties it
\* to the flag of the event: the entries of event 3 are teams but for entry
\* 2, which has the default of the column; all the others are individuals.
IsTeam(e, k) == e = 3 /\ k # 2

\* The entry keys entries_for_event offers for event e: the entries whose
\* is_team is the event's is_team_event.
EntriesForEvent(e) == {k \in EntryKeys(e) : IsTeam(e, k) = IsTeamEvent(e)}

\* select count(*) from event_entries where event_id = e
EntryCount(e) == Cardinality(EntryKeys(e))

\* events.sort_order of the catalog (unique): the events are seeded in the
\* order of their ids.
SortOrder(e) == e

\* No league_events row for the event.
NoRow == [mode |-> "none", sort_order |-> 0]
NoPlan == [e \in Events |-> NoRow]
NoPositions == [u \in Users |-> 0]

\* A slot that serves no request.
Idle ==
    [op |-> "none", pc |-> "idle", user |-> 0,
     member_count |-> 0, members |-> <<>>, events |-> <<>>, idx |-> 0,
     event |-> 0, plan |-> NoPlan, picks |-> {}, positions |-> NoPositions,
     updated |-> {}, key |-> 0, after |-> <<>>, started |-> 0]

\* A response that carries no draft state.
NoState ==
    [error |-> "none", complete |-> FALSE, event |-> 0, event_index |-> -1,
     direction |-> "none", on_the_clock |-> 0]

\* No response was sent in the last step.
NoResponse ==
    [op |-> "none", user |-> 0, detail |-> "none", entry_key |-> 0,
     state |-> NoState]

\* The response of the request of slot p, with the detail of its outcome.
\* (Its user is req[p].user: the field user is for the requests that are
\* answered as they arrive.)
Reply(p, detail) ==
    [op |-> req[p].op, user |-> 0, detail |-> detail, entry_key |-> 0,
     state |-> NoState]

\* The slot that takes the next request: the first free one.
Free(p) ==
    /\ req[p].pc = "idle"
    /\ \A q \in Procs : q < p => req[q].pc # "idle"


\* The request of slot p ends with the response reply.
Finish(p, reply) ==
    /\ req' = [req EXCEPT ![p] = Idle]
    /\ response' = reply
    /\ now' = now

\* The response to a request of user u that is rejected as it arrives.
Begin(op, u, detail) ==
    [NoResponse EXCEPT !.op = op, !.user = u, !.detail = detail]

\* The request of slot p goes on to its next statement.
Goto(p, r) ==
    /\ req' = [req EXCEPT ![p] = r]
    /\ response' = NoResponse
    /\ now' = now

(***************************************************************************)
(* The detail texts of the responses (HTTPException(detail=...)).          *)
(***************************************************************************)
Ok == "ok"
NotAMember == "Not a member of this league"
DraftNotActive == "Draft not active"
NoMembers == "League has no members"
DraftNotStarted == "Draft order not set. Commissioner must start the draft."
EventsNotSet == "Draft events not set. Commissioner must start the draft."
DraftComplete == "Draft is complete"
NotYourTurn == "Not your turn"
InvalidEntry == "Invalid entry for this event"
AlreadyPicked == "You already picked for this event"
EntryAlreadyTaken == "That entry was already drafted for this event"
PickRejected == "Pick rejected"
LeagueNotFound == "League not found"
AlreadyStarted == "League already started; cannot join now"
CommissionerOnly == "Commissioner only"
NotInLobby == "League not in lobby"
InvalidRounds == "Invalid draft_rounds"
InsufficientCapacity == "Not enough events with entries"
AlreadyGenerated == "League events already generated"
CannotLock == "Cannot lock before draft starts"
\* An exception no handler catches (an IntegrityError of start_draft).
ServerError == "Internal Server Error"

(***************************************************************************)
(* draft.py: the reads of the resolver.                                    *)
(***************************************************************************)
\* order by m.draft_position asc nulls last, u.id asc
MemberSortKey(pos) ==
    [u \in Users |->
        (IF pos[u] = 0 THEN NumUsers + 1 ELSE pos[u]) * (NumUsers + 1) + u]

\* The rows _get_members_in_draft_order selects, as user ids.
MembersInDraftOrder(mem, pos) == SortBy(mem, MemberSortKey(pos))

\* select count(*) from league_events where mode = 'draft'
DraftEventCount(plan) == Cardinality({e \in Events : plan[e].mode = "draft"})

\* The rows _get_events_in_order selects: the draft-mode events that have
\* at least member_count entries, order by le.sort_order.
EventsInOrder(plan, member_count) ==
    SortBy({e \in Events : plan[e].mode = "draft" /\ EntryCount(e) >= member_count},
           [e \in Events |-> plan[e].sort_order])

\* The rows _get_picks_for_event selects.
PicksForEvent(picks, e) == {pk \in picks : pk.event_id = e}

\* A resolver that walks the first event in reverse, the next forward.
InProgressReversed(ms, evs, idx, picks) ==
    LET k == Cardinality(PicksForEvent(picks, evs[idx]))
        forward == ((idx - 1) % 2 = 1)
        order == IF forward THEN ms ELSE Reverse(ms)
    IN  [error |-> "none", complete |-> FALSE, event |-> evs[idx],
         event_index |-> idx - 1,
         direction |-> IF forward THEN "forward" ELSE "reverse",
         on_the_clock |-> order[k + 1]]

\* What _current_state returns from inside its loop, for the event at
\* (1-based) place idx of evs, which has fewer than Len(ms) picks.
InProgress(ms, evs, idx, picks) ==
    LET k == Cardinality(PicksForEvent(picks, evs[idx]))
        forward == ((idx - 1) % 2 = 0)
        order == IF forward THEN ms ELSE Reverse(ms)
    IN  [error |-> "none", complete |-> FALSE, event |-> evs[idx],
         event_index |-> idx - 1,
         direction |-> IF forward THEN "forward" ELSE "reverse",
         on_the_clock |-> order[k + 1]]

\* What _current_state returns after its loop.
Complete ==
    [error |-> "none", complete |-> TRUE, event |-> 0, event_index |-> -1,
     direction |-> "none", on_the_clock |-> 0]

\* _current_state raising an HTTPException.
Raised(detail) ==
    [error |-> detail, complete |-> FALSE, event |-> 0, event_index |-> -1,
     direction |-> "none", on_the_clock |-> 0]

RECURSIVE Walk(_, _, _, _)
\* The loop of _current_state from place idx on.
Walk(ms, evs, idx, picks) ==
    IF idx > Len(evs) THEN Complete
    ELSE IF Cardinality(PicksForEvent(picks, evs[idx])) < Len(ms)
         THEN InProgress(ms, evs, idx, picks)
         ELSE Walk(ms, evs, idx + 1, picks)

\* _current_state with all its reads made on one state of the tables.
CurrentState(mem, pos, plan, picks) ==
    LET ms == MembersInDraftOrder(mem, pos)
    IN  IF ms = <<>> THEN Raised(NoMembers)
        ELSE IF pos[ms[1]] = 0 THEN Raised(DraftNotStarted)
        ELSE IF DraftEventCount(plan) <= 0 THEN Raised(EventsNotSet)
        ELSE Walk(ms, EventsInOrder(plan, Len(ms)), 1, picks)

(***************************************************************************)
(* models.py: the unique constraints of draft_picks.                       *)
(***************************************************************************)
\* A table without the constraint uq_pick_user_per_event.
UnconstrainedUser(picks, row) == FALSE

\* A table without the constraint uq_pick_no_dupe_entry.
UnconstrainedEntry(picks, row) == FALSE

UqPickUserPerEvent(picks, row) ==
    \E pk \in picks : pk.event_id = row.event_id /\ pk.user_id = row.user_id

UqPickNoDupeEntry(picks, row) ==
    \E pk \in picks : pk.event_id = row.event_id /\ pk.entry_key = row.entry_key

\* The constraints an insert of row would violate.  Which of two violated
\* constraints the database names in its error depends on the order of the
\* indexes of the deployed schema.
Violated(picks, row) ==
    (IF UqPickUserPerEvent(picks, row) THEN {"uq_pick_user_per_event"} ELSE {})
    \cup
    (IF UqPickNoDupeEntry(picks, row) THEN {"uq_pick_no_dupe_entry"} ELSE {})

(***************************************************************************)
(* draft.py: make_pick.                                                    *)
(***************************************************************************)
\* picked_at ... default now(): the rows a transaction inserts get the
\* reading of the clock at which the transaction began.
Stamped(rows, at) ==
    {[event_id |-> r.event_id, user_id |-> r.user_id,
      entry_key |-> r.entry_key, entry_name |-> r.entry_name,
      picked_at |-> at] : r \in rows}

\* The row with the entry_name the client sent.
PickRowAsSent(e, u, k, sent_name) ==
    [event_id |-> e, user_id |-> u, entry_key |-> k, entry_name |-> sent_name]

\* The row make_pick inserts: the entry_name is the catalog's, not the text
\* the client sent.
PickRow(e, u, k, sent_name) ==
    [event_id |-> e, user_id |-> u, entry_key |-> k,
     entry_name |-> CatalogName(e, k)]

\* The words the handler looks for in str(e).lower() of the IntegrityError
\* of a violated constraint: the database's message ("duplicate key value
\* violates unique constraint <name>") followed by the statement that
\* failed, "insert into public.draft_picks (league_id, event_id, user_id,
\* entry_key, entry_name) ...".
ErrorWords(constraint) ==
    {"unique", constraint} \cup {"event", "user", "entry"}

\* The except branch of make_pick.
PickErrorDetail(msg) ==
    IF "uq_pick_user_per_event" \in msg \/ {"unique", "user", "event"} \subseteq msg
    THEN AlreadyPicked
    ELSE IF "uq_pick_no_dupe_entry" \in msg \/ {"unique", "entry"} \subseteq msg
    THEN EntryAlreadyTaken
    ELSE PickRejected

\* A handler that takes every user for a member.
AnyUser(mem, u) == TRUE

\* Line 177: _require_member.
RequireMember(mem, u) == u \in mem

\* A handler that takes every status for drafting.
AnyStatus(st) == TRUE

\* Line 178: _require_drafting.
RequireDrafting(st) == st = "drafting"

\* Lines 177-178: a request of user u arrives; the membership is checked
\* first, the status second.  The two reads are one step: no handler
\* deletes a member, so a member at the first read is one at the second.
make_pick_require(p, u) ==
    /\ Free(p)
    /\ IF ~RequireMember(members, u)
       THEN Finish(p, Begin("make_pick", u, NotAMember))
       ELSE IF ~RequireDrafting(status)
       THEN Finish(p, Begin("make_pick", u, DraftNotActive))
       ELSE Goto(p, [Idle EXCEPT !.op = "make_pick", !.pc = "members",
                                 !.user = u, !.started = now])
    /\ UNCHANGED <<event_entries, invited, status, draft_rounds, members,
                   draft_position, league_events, draft_picks>>

\* A handler without the check of line 184.
NoTurnCheck(state, u) == IF state.complete THEN DraftComplete ELSE "none"

\* Lines 181-185: what make_pick does with the state it resolved: the
\* detail of its rejection, or "none" when the pick goes on.
TurnCheck(state, u) ==
    IF state.complete THEN DraftComplete
    ELSE IF state.on_the_clock # u THEN NotYourTurn
    ELSE "none"

\* The request r of slot p has resolved state.
Resolved(p, r, state) ==
    IF TurnCheck(state, r.user) # "none"
    THEN Finish(p, Reply(p, TurnCheck(state, r.user)))
    ELSE Goto(p, [r EXCEPT !.pc = "insert", !.event = state.event])

\* Lines 118-121 (38-98): _current_state reads the members and the events
\* to walk.  The two reads are one step: the request has read the status
\* 'drafting', which start_draft commits together with the plan, and no
\* handler changes the plan or the catalog after that.
make_pick_members(p) ==
    /\ req[p].op = "make_pick" /\ req[p].pc = "members"
    /\ LET ms == MembersInDraftOrder(members, draft_position)
           evs == EventsInOrder(league_events, Len(ms))
       IN  IF ms = <<>> THEN Finish(p, Reply(p, NoMembers))
           ELSE IF draft_position[ms[1]] = 0
           THEN Finish(p, Reply(p, DraftNotStarted))
           ELSE IF DraftEventCount(league_events) <= 0
           THEN Finish(p, Reply(p, EventsNotSet))
           ELSE IF evs = <<>>
           THEN Resolved(p, [req[p] EXCEPT !.members = ms], Complete)
           ELSE Goto(p, [req[p] EXCEPT !.pc = "picks", !.members = ms,
                                       !.events = evs, !.idx = 1])
    /\ UNCHANGED <<event_entries, invited, status, draft_rounds, members,
                   draft_position, league_events, draft_picks>>

\* Lines 123-148: one round of the loop of _current_state: it reads the
\* picks of the event at place idx.
make_pick_picks(p) ==
    /\ req[p].op = "make_pick" /\ req[p].pc = "picks"
    /\ LET r == req[p]
           k == Cardinality(PicksForEvent(draft_picks, r.events[r.idx]))
       IN  IF k < Len(r.members)
           THEN Resolved(p, r, InProgress(r.members, r.events, r.idx, draft_picks))
           ELSE IF r.idx = Len(r.events) THEN Resolved(p, r, Complete)
           ELSE Goto(p, [r EXCEPT !.idx = r.idx + 1])
    /\ UNCHANGED <<event_entries, invited, status, draft_rounds, members,
                   draft_position, league_events, draft_picks>>

\* A lookup that finds a row for every key.
AnyEntry(e, k) == TRUE

\* A response that leaves the state out.
AnswerWithoutState(p, state) ==
    Finish(p, [Reply(p, Ok) EXCEPT !.entry_key = req[p].key])

\* Lines 151-158 and 240: the response of draft_state, and of a make_pick
\* that committed its row (key is its entry_key), with the state that
\* _current_state returned.
Answer(p, state) ==
    Finish(p, [Reply(p, Ok) EXCEPT !.entry_key = req[p].key,
                                   !.state = state])

\* Lines 118-121 (38-98): _current_state, called by draft_state or by
\* make_pick after its commit, reads the members and the events to walk.
\* The two reads are one step: the members have positions only when
\* start_draft has committed, and the plan does not change after that.
current_state_members(p) ==
    /\ req[p].op \in {"make_pick", "draft_state"}
    /\ req[p].pc = "state_members"
    /\ LET ms == MembersInDraftOrder(members, draft_position)
           evs == EventsInOrder(league_events, Len(ms))
       IN  IF ms = <<>> THEN Finish(p, Reply(p, NoMembers))
           ELSE IF draft_position[ms[1]] = 0
           THEN Finish(p, Reply(p, DraftNotStarted))
           ELSE IF DraftEventCount(league_events) <= 0
           THEN Finish(p, Reply(p, EventsNotSet))
           ELSE IF evs = <<>> THEN Answer(p, Complete)
           ELSE Goto(p, [req[p] EXCEPT !.pc = "state_picks", !.members = ms,
                                       !.events = evs, !.idx = 1])
    /\ UNCHANGED <<event_entries, invited, status, draft_rounds, members,
                   draft_position, league_events, draft_picks>>

\* Lines 123-148: one round of the loop of that _current_state.
current_state_picks(p) ==
    /\ req[p].op \in {"make_pick", "draft_state"}
    /\ req[p].pc = "state_picks"
    /\ LET r == req[p]
           k == Cardinality(PicksForEvent(draft_picks, r.events[r.idx]))
       IN  IF k < Len(r.members)
           THEN Answer(p, InProgress(r.members, r.events, r.idx, draft_picks))
           ELSE IF r.idx = Len(r.events) THEN Answer(p, Complete)
           ELSE Goto(p, [r EXCEPT !.idx = r.idx + 1])
    /\ UNCHANGED <<event_entries, invited, status, draft_rounds, members,
                   draft_position, league_events, draft_picks>>

\* Lines 151-157: a draft_state request of user u arrives.  The request
\* keeps the tables as it found them in the field after.
draft_state_require(p, u) ==
    /\ Free(p)
    /\ IF ~RequireMember(members, u)
       THEN Finish(p, Begin("draft_state", u, NotAMember))
       ELSE Goto(p, [Idle EXCEPT
                       !.op = "draft_state", !.pc = "state_members",
                       !.user = u,
                       !.after = <<members, draft_position, league_events,
                                   draft_picks>>])
    /\ UNCHANGED <<event_entries, invited, status, draft_rounds, members,
                   draft_position, league_events, draft_picks>>

\* Lines 187-200: the entry of the catalog for (event, entry_key), if any.
EntryRow(e, k) == k \in EntryKeys(e)

\* Lines 187-224: the entry lookup, the insert and the commit, for the
\* entry_key k and the entry_name the client sent.  A request that committed
\* goes on to read the state it returns (line 240); it keeps the tables as
\* its commit left them in the field after, for the properties to tell
\* whether another request has written since.
make_pick_insert(p, k, sent_name) ==
    /\ req[p].op = "make_pick" /\ req[p].pc = "insert"
    /\ LET e == req[p].event
           row == PickRow(e, req[p].user, k, sent_name)
           at == [Reply(p, Ok) EXCEPT !.entry_key = k]
       IN  IF ~EntryRow(e, k)
           THEN /\ Finish(p, [at EXCEPT !.detail = InvalidEntry])
                /\ UNCHANGED draft_picks
           ELSE IF Violated(draft_picks, row) = {}
           THEN /\ draft_picks' =
                      draft_picks \cup Stamped({row}, req[p].started)
                /\ Goto(p, [req[p] EXCEPT
                              !.pc = "state_members", !.key = k,
                              !.after = <<members, draft_position,
                                          league_events, draft_picks'>>])
           ELSE /\ \E c \in Violated(draft_picks, row) :
                      Finish(p, [at EXCEPT
                                   !.detail = PickErrorDetail(ErrorWords(c))])
                /\ UNCHANGED draft_picks
    /\ UNCHANGED <<event_entries, invited, status, draft_rounds, members,
                   draft_position, league_events>>

(***************************************************************************)
(* leagues.py: join_league and lock_league.                                *)
(***************************************************************************)
\* Lines 106-116: a join request of user u arrives; the league is looked up
\* by the invite code the user sends, and its status read.
join_league_status(p, u) ==
    /\ Free(p)
    /\ IF u \notin invited
       THEN Finish(p, Begin("join_league", u, LeagueNotFound))
       ELSE IF status # "lobby"
       THEN Finish(p, Begin("join_league", u, AlreadyStarted))
       ELSE Goto(p, [Idle EXCEPT !.op = "join_league", !.pc = "insert",
                                 !.user = u])
    /\ UNCHANGED <<event_entries, invited, status, draft_rounds, members,
                   draft_position, league_events, draft_picks>>

\* Lines 118-130: insert ... on conflict do nothing, and the commit.  A new
\* row has a NULL draft_position.
join_league_insert(p) ==
    /\ req[p].op = "join_league" /\ req[p].pc = "insert"
    /\ members' = members \cup {req[p].user}
    /\ Finish(p, Reply(p, Ok))
    /\ UNCHANGED <<event_entries, invited, status, draft_rounds,
                   draft_position, league_events, draft_picks>>

\* Lines 20-30: _require_commissioner.
RequireCommissioner(u) == u = Commissioner

\* A handler that locks a league of every status.
LocksAnyStatus(st) == TRUE

\* Lines 493-494: a league in lobby cannot be locked.
CanLock(st) == st # "lobby"

\* Lines 484-494: a lock request of user u arrives and reads the status.
lock_league_status(p, u) ==
    /\ Free(p)
    /\ IF ~RequireCommissioner(u)
       THEN Finish(p, Begin("lock_league", u, CommissionerOnly))
       ELSE IF ~CanLock(status)
       THEN Finish(p, Begin("lock_league", u, CannotLock))
       ELSE Goto(p, [Idle EXCEPT !.op = "lock_league", !.pc = "update",
                                 !.user = u])
    /\ UNCHANGED <<event_entries, invited, status, draft_rounds, members,
                   draft_position, league_events, draft_picks>>

\* A lock that also clears the picks of the league.
lock_league_resets(p) ==
    /\ req[p].op = "lock_league" /\ req[p].pc = "update"
    /\ status' = "locked"
    /\ draft_picks' = {}
    /\ Finish(p, Reply(p, Ok))
    /\ UNCHANGED <<event_entries, invited, draft_rounds, members,
                   draft_position, league_events>>

\* Lines 496-502: the update and the commit.
lock_league_update(p) ==
    /\ req[p].op = "lock_league" /\ req[p].pc = "update"
    /\ status' = "locked"
    /\ Finish(p, Reply(p, Ok))
    /\ UNCHANGED <<event_entries, invited, draft_rounds, members,
                   draft_position, league_events, draft_picks>>

(***************************************************************************)
(* leagues.py: start_draft.  Its writes are one transaction: they are      *)
(* pending in the request (plan, picks, positions) until its commit.       *)
(***************************************************************************)
\* A handler that starts a league of every status.
StartsAnyStatus(st) == TRUE

\* Lines 159-160: only a league in lobby can be started.
CanStart(st) == st = "lobby"

\* Lines 149-160: a start request of user u arrives and reads the status.
start_draft_status(p, u) ==
    /\ Free(p)
    /\ IF ~RequireCommissioner(u)
       THEN Finish(p, Begin("start_draft", u, CommissionerOnly))
       ELSE IF ~CanStart(status)
       THEN Finish(p, Begin("start_draft", u, NotInLobby))
       ELSE Goto(p, [Idle EXCEPT !.op = "start_draft", !.pc = "member_count",
                                 !.user = u, !.started = now])
    /\ UNCHANGED <<event_entries, invited, status, draft_rounds, members,
                   draft_position, league_events, draft_picks>>

\* Lines 176-192, 229-234: the events with more entries than member_count.
DraftableEvents(member_count) ==
    {e \in Events : EntryCount(e) > member_count}

\* The checks of start_draft without the comparison of draft_rounds with
\* the number of draftable events.
CapacityUnchecked(events_count, member_count, rounds) ==
    IF events_count <= 0 THEN "No events seeded"
    ELSE IF member_count <= 0 THEN NoMembers
    ELSE IF rounds < 1 THEN InvalidRounds
    ELSE "none"

\* Lines 162-204: the checks of start_draft on the counts it read: the
\* detail of its rejection, or "none".
CapacityCheck(events_count, member_count, rounds) ==
    IF events_count <= 0 THEN "No events seeded"
    ELSE IF member_count <= 0 THEN NoMembers
    ELSE IF rounds < 1 THEN InvalidRounds
    ELSE IF rounds > Cardinality(DraftableEvents(member_count))
    THEN InsufficientCapacity
    ELSE "none"

\* Lines 162-204: the request counts the events, the members and the
\* draftable events.
start_draft_member_count(p) ==
    /\ req[p].op = "start_draft" /\ req[p].pc = "member_count"
    /\ LET mc == Cardinality(members)
           refused == CapacityCheck(Cardinality(Events), mc, draft_rounds)
       IN  IF refused # "none"
           THEN Finish(p, Reply(p, refused))
           ELSE Goto(p, [req[p] EXCEPT !.pc = "already", !.member_count = mc])
    /\ UNCHANGED <<event_entries, invited, status, draft_rounds, members,
                   draft_position, league_events, draft_picks>>

\* Lines 206-212: the existence check of the plan.
start_draft_already(p) ==
    /\ req[p].op = "start_draft" /\ req[p].pc = "already"
    /\ IF league_events # NoPlan
       THEN Finish(p, Reply(p, AlreadyGenerated))
       ELSE Goto(p, [req[p] EXCEPT !.pc = "plan"])
    /\ UNCHANGED <<event_entries, invited, status, draft_rounds, members,
                   draft_position, league_events, draft_picks>>

\* Lines 235-240: order by random() limit :draft_n: the possible samples.
DraftSamples(member_count, rounds) ==
    LET able == DraftableEvents(member_count)
    IN  {D \in SUBSET able :
            Cardinality(D) = IF rounds < Cardinality(able)
                             THEN rounds ELSE Cardinality(able)}

\* The plan with rows for the sampled events only.
PlanRowsOfSample(D) ==
    [e \in Events |-> IF e \in D
                      THEN [mode |-> "draft", sort_order |-> SortOrder(e)]
                      ELSE NoRow]

\* Lines 241-248: the rows inserted into league_events for the sample D,
\* one for every event of the catalog, with the catalog's sort order.
PlanRows(D) ==
    [e \in Events |-> [mode |-> IF e \in D THEN "draft" ELSE "auto",
                       sort_order |-> SortOrder(e)]]

\* The insert of the plan into a table without the primary key: it neither
\* waits nor fails.
start_draft_plan_unkeyed(p) ==
    /\ req[p].op = "start_draft" /\ req[p].pc = "plan"
    /\ \E D \in DraftSamples(req[p].member_count, draft_rounds) :
          Goto(p, [req[p] EXCEPT !.pc = "auto_enough", !.plan = PlanRows(D)])
    /\ UNCHANGED <<event_entries, invited, status, draft_rounds, members,
                   draft_position, league_events, draft_picks>>

\* Lines 218-252: the insert of the plan.  league_events has the primary
\* key (league_id, event_id): the insert waits for a request that holds
\* uncommitted rows of the league, and fails on committed ones.
start_draft_plan(p) ==
    /\ req[p].op = "start_draft" /\ req[p].pc = "plan"
    /\ \A q \in Procs \ {p} : req[q].plan = NoPlan
    /\ IF league_events # NoPlan
       THEN Finish(p, Reply(p, ServerError))
       ELSE \E D \in DraftSamples(req[p].member_count, draft_rounds) :
                Goto(p, [req[p] EXCEPT !.pc = "auto_enough",
                                       !.plan = PlanRows(D)])
    /\ UNCHANGED <<event_entries, invited, status, draft_rounds, members,
                   draft_position, league_events, draft_picks>>

\* row_number() over (order by user_id) of the members.
MemberPos(mem) == [u \in mem |-> Cardinality({v \in mem : v <= u})]

\* row_number() over (partition by event_id order by random()) of the
\* entries of the events E: every possible ranking, by event.
Rankings(E) ==
    {f \in [E -> UNION {Orderings(EntryKeys(e)) : e \in E}] :
        \A e \in E : f[e] \in Orderings(EntryKeys(e))}

AutoEvents(plan) == {e \in Events : plan[e].mode = "auto"}

\* Lines 283-287: the auto events with at least :member_count entries.
EnoughEvents(plan, member_count) ==
    {e \in AutoEvents(plan) : EntryCount(e) >= member_count}

\* Lines 346-351: the auto events with some, but fewer, entries.
ShortEvents(plan, member_count) ==
    {e \in AutoEvents(plan) :
        EntryCount(e) > 0 /\ EntryCount(e) < member_count}

\* Lines 300-312: the rows the first auto-assignment inserts: in each
\* enough event, the member at member_pos gets the entry at that entry_pos.
AutoEnoughRows(plan, member_count, mem, rank) ==
    {[event_id |-> x[1], user_id |-> x[2],
      entry_key |-> rank[x[1]][MemberPos(mem)[x[2]]],
      entry_name |-> CatalogName(x[1], rank[x[1]][MemberPos(mem)[x[2]]])] :
        x \in {y \in EnoughEvents(plan, member_count) \X mem :
                  MemberPos(mem)[y[2]] <= EntryCount(y[1])}}

\* Lines 364-387: the rows the second auto-assignment offers: the entries
\* are cycled, and a repeated entry gets a suffixed key.
AutoShortRows(plan, member_count, mem, rank) ==
    {LET e == x[1]
         member_pos == MemberPos(mem)[x[2]]
         desired_entry_pos == ((member_pos - 1) % EntryCount(e)) + 1
         k == rank[e][desired_entry_pos]
     IN  [event_id |-> e, user_id |-> x[2],
          entry_key |-> IF member_pos <= EntryCount(e) THEN k
                        ELSE AutoDupKey(k, member_pos),
          entry_name |-> CatalogName(e, k)] :
        x \in ShortEvents(plan, member_count) \X mem}

\* An insert of rows into picks fails on a unique constraint.
InsertFails(picks, rows) ==
    \E r \in rows : Violated(picks \cup (rows \ {r}), r) # {}

\* on conflict do nothing: the rows of an insert that are kept.
KeptRows(picks, rows) == {r \in rows : Violated(picks, r) = {}}

\* Line 254: if auto_count > 0 and member_count > 0.
AutoAssigns(rounds, member_count) ==
    Cardinality(Events) - rounds > 0 /\ member_count > 0

\* Lines 254-315: the auto-assignment of the events with enough entries.
\* It reads the members anew.
start_draft_auto_enough(p) ==
    /\ req[p].op = "start_draft" /\ req[p].pc = "auto_enough"
    /\ LET r == req[p]
       IN  IF ~AutoAssigns(draft_rounds, r.member_count)
           THEN Goto(p, [r EXCEPT !.pc = "positions"])
           ELSE \E rank \in Rankings(EnoughEvents(r.plan, r.member_count)) :
                  LET rows == AutoEnoughRows(r.plan, r.member_count,
                                             members, rank)
                  IN  IF InsertFails(draft_picks \cup r.picks, rows)
                      THEN Finish(p, Reply(p, ServerError))
                      ELSE Goto(p, [r EXCEPT !.pc = "auto_short",
                                             !.picks = r.picks \cup rows])
    /\ UNCHANGED <<event_entries, invited, status, draft_rounds, members,
                   draft_position, league_events, draft_picks>>

\* Lines 317-415: the auto-assignment of the events with too few entries.
\* It reads the members anew.
start_draft_auto_short(p) ==
    /\ req[p].op = "start_draft" /\ req[p].pc = "auto_short"
    /\ LET r == req[p]
       IN  \E rank \in Rankings(ShortEvents(r.plan, r.member_count)) :
              LET rows == AutoShortRows(r.plan, r.member_count, members, rank)
              IN  Goto(p, [r EXCEPT
                             !.pc = "positions",
                             !.picks = r.picks \cup
                                 KeptRows(draft_picks \cup r.picks, rows)])
    /\ UNCHANGED <<event_entries, invited, status, draft_rounds, members,
                   draft_position, league_events, draft_picks>>

\* Lines 421-426: row_number() over (order by random()): the position of
\* every user of the ordering ord.
ShuffledPositions(ord) ==
    [u \in Users |-> IF u \in Range(ord)
                     THEN CHOOSE i \in 1..Len(ord) : ord[i] = u
                     ELSE 0]

\* Lines 417-436: the update of the draft positions of the members that
\* exist now.
start_draft_positions(p) ==
    /\ req[p].op = "start_draft" /\ req[p].pc = "positions"
    /\ \E ord \in Orderings(members) :
          Goto(p, [req[p] EXCEPT !.pc = "commit",
                                 !.positions = ShuffledPositions(ord),
                                 !.updated = members])
    /\ UNCHANGED <<event_entries, invited, status, draft_rounds, members,
                   draft_position, league_events, draft_picks>>

\* Lines 438-445: the update of the status and the commit of the plan, the
\* auto-assigned picks, the positions and the status.
start_draft_commit(p) ==
    /\ req[p].op = "start_draft" /\ req[p].pc = "commit"
    /\ status' = "drafting"
    /\ league_events' = req[p].plan
    /\ draft_picks' = draft_picks \cup Stamped(req[p].picks, req[p].started)
    /\ draft_position' =
          [u \in Users |-> IF u \in req[p].updated THEN req[p].positions[u]
                           ELSE draft_position[u]]
    /\ Finish(p, Reply(p, Ok))
    /\ UNCHANGED <<event_entries, invited, draft_rounds, members>>

(***************************************************************************)
(* The system.                                                             *)
(***************************************************************************)
\* The draft_rounds the league is created with.
DraftRounds == 2

\* After create_league: a lobby league whose only member is its
\* commissioner.  With the wide catalog one more user holds the invite
\* code, with the narrow catalog all other users do.
Init ==
    /\ \/ event_entries = WideCatalog /\ invited = {Commissioner, 2}
       \/ event_entries = NarrowCatalog /\ invited = Users
    /\ status = "lobby"
    /\ draft_rounds = DraftRounds
    /\ members = {Commissioner}
    /\ draft_position = NoPositions
    /\ league_events = NoPlan
    /\ draft_picks = {}
    /\ req = [p \in Procs |-> Idle]
    /\ response = NoResponse
    /\ now = 0

Next ==
    \E p \in Procs :
        \/ \E u \in Users : make_pick_require(p, u)
        \/ make_pick_members(p)
        \/ make_pick_picks(p)
        \/ \E k \in SentKeys, sent_name \in ClientNames :
              make_pick_insert(p, k, sent_name)
        \/ current_state_members(p)
        \/ current_state_picks(p)
        \/ \E u \in Users : join_league_status(p, u)
        \/ join_league_insert(p)
        \/ \E u \in Users : lock_league_status(p, u)
        \/ lock_league_update(p)
        \/ \E u \in Users : start_draft_status(p, u)
        \/ start_draft_member_count(p)
        \/ start_draft_already(p)
        \/ start_draft_plan(p)
        \/ start_draft_auto_enough(p)
        \/ start_draft_auto_short(p)
        \/ start_draft_positions(p)
        \/ start_draft_commit(p)

Spec == Init /\ [][Next]_vars


(***************************************************************************)
(* The draft on its own: the league as a start_draft that ran alone leaves *)
(* it, and make_pick requests only.                                        *)
(***************************************************************************)
\* Lines 254-392: the picks a start_draft that runs alone inserts.
StartedPicks(plan, member_count, mem, rank_enough, rank_short) ==
    IF ~AutoAssigns(DraftRounds, member_count) THEN {}
    ELSE LET rows == AutoEnoughRows(plan, member_count, mem, rank_enough)
         IN  rows \cup KeptRows(rows, AutoShortRows(plan, member_count, mem,
                                                    rank_short))

\* The state start_draft commits when no other request runs during it: the
\* members joined before, and start_draft answers 200.
InitDraft ==
    /\ \/ event_entries = WideCatalog /\ invited = {Commissioner, 2}
       \/ event_entries = NarrowCatalog /\ invited = Users
    /\ status = "drafting"
    /\ draft_rounds = DraftRounds
    /\ members \in {M \in SUBSET invited : Commissioner \in M}
    /\ CapacityCheck(Cardinality(Events), Cardinality(members),
                     draft_rounds) = "none"
    /\ \E ord \in Orderings(members) :
          draft_position = ShuffledPositions(ord)
    /\ \E D \in DraftSamples(Cardinality(members), draft_rounds) :
          league_events = PlanRows(D)
    /\ \E rank_enough \in
             Rankings(EnoughEvents(league_events, Cardinality(members))),
          rank_short \in
             Rankings(ShortEvents(league_events, Cardinality(members))) :
          draft_picks =
              Stamped(StartedPicks(league_events, Cardinality(members),
                                   members, rank_enough, rank_short), 0)
    /\ req = [p \in Procs |-> Idle]
    /\ response = [NoResponse EXCEPT !.op = "start_draft", !.detail = Ok]
    /\ now = 0

NextDraft ==
    \E p \in Procs :
        \/ \E u \in Users : make_pick_require(p, u)
        \/ make_pick_members(p)
        \/ make_pick_picks(p)
        \/ \E k \in SentKeys, sent_name \in ClientNames :
              make_pick_insert(p, k, sent_name)
        \/ current_state_members(p)
        \/ current_state_picks(p)

SpecDraft == InitDraft /\ [][NextDraft]_vars

(***************************************************************************)
(* The league with its readers: a league in lobby, or one that a           *)
(* start_draft that ran alone has started, with the make_pick, join_league,*)
(* lock_league and draft_state requests.                                   *)
(***************************************************************************)
InitState == Init \/ InitDraft

NextState ==
    \E p \in Procs :
        \/ \E u \in Users : draft_state_require(p, u)
        \/ current_state_members(p)
        \/ current_state_picks(p)
        \/ \E u \in Users : make_pick_require(p, u)
        \/ make_pick_members(p)
        \/ make_pick_picks(p)
        \/ \E k \in SentKeys, sent_name \in ClientNames :
              make_pick_insert(p, k, sent_name)
        \/ \E u \in Users : join_league_status(p, u)
        \/ join_league_insert(p)
        \/ \E u \in Users : lock_league_status(p, u)
        \/ lock_league_update(p)

SpecState == InitState /\ [][NextState]_vars

(***************************************************************************)
(* Every operation on the league, draft_state among them, on the wide      *)
(* catalog: start_draft, join_league, lock_league, make_pick and           *)
(* draft_state requests in every interleaving.                             *)
(***************************************************************************)
InitAll == Init /\ event_entries = WideCatalog

NextAll ==
    \E p \in Procs :
        \/ \E u \in Users : draft_state_require(p, u)
        \/ \E u \in Users : make_pick_require(p, u)
        \/ make_pick_members(p)
        \/ make_pick_picks(p)
        \/ \E k \in SentKeys, sent_name \in ClientNames :
              make_pick_insert(p, k, sent_name)
        \/ current_state_members(p)
        \/ current_state_picks(p)
        \/ \E u \in Users : join_league_status(p, u)
        \/ join_league_insert(p)
        \/ \E u \in Users : lock_league_status(p, u)
        \/ lock_league_update(p)
        \/ \E u \in Users : start_draft_status(p, u)
        \/ start_draft_member_count(p)
        \/ start_draft_already(p)
        \/ start_draft_plan(p)
        \/ start_draft_auto_enough(p)
        \/ start_draft_auto_short(p)
        \/ start_draft_positions(p)
        \/ start_draft_commit(p)

SpecAll == InitAll /\ [][NextAll]_vars

(***************************************************************************)
(* The draft of a league of one round, one request at a time: the league   *)
(* as a start_draft that ran alone leaves it when draft_rounds is 1, and   *)
(* make_pick requests that arrive when no other request is being served.   *)
(***************************************************************************)
\* As InitDraft, for a league created with draft_rounds = 1.  The
\* auto-assignment runs as it does for two rounds: there are auto events
\* in both cases (line 254).
InitOneRound ==
    /\ \/ event_entries = WideCatalog /\ invited = {Commissioner, 2}
       \/ event_entries = NarrowCatalog /\ invited = Users
    /\ status = "drafting"
    /\ draft_rounds = 1
    /\ members \in {M \in SUBSET invited : Commissioner \in M}
    /\ CapacityCheck(Cardinality(Events), Cardinality(members),
                     draft_rounds) = "none"
    /\ \E ord \in Orderings(members) :
          draft_position = ShuffledPositions(ord)
    /\ \E D \in DraftSamples(Cardinality(members), draft_rounds) :
          league_events = PlanRows(D)
    /\ \E rank_enough \in
             Rankings(EnoughEvents(league_events, Cardinality(members))),
          rank_short \in
             Rankings(ShortEvents(league_events, Cardinality(members))) :
          draft_picks =
              Stamped(StartedPicks(league_events, Cardinality(members),
                                   members, rank_enough, rank_short), 0)
    /\ req = [p \in Procs |-> Idle]
    /\ response = [NoResponse EXCEPT !.op = "start_draft", !.detail = Ok]
    /\ now = 0

\* No request is being served.
Quiet == \A q \in Procs : req[q].pc = "idle"

NextSequential ==
    \E p \in Procs :
        \/ \E u \in Users : Quiet /\ make_pick_require(p, u)
        \/ make_pick_members(p)
        \/ make_pick_picks(p)
        \/ \E k \in SentKeys, sent_name \in ClientNames :
              make_pick_insert(p, k, sent_name)
        \/ current_state_members(p)
        \/ current_state_picks(p)

SpecOneRound == InitOneRound /\ [][NextSequential]_vars

(***************************************************************************)
(* The draft of a league of three rounds: every event of the catalog has   *)
(* four entries, so that three members can draft all three events; the     *)
(* league as a start_draft that ran alone leaves it, and make_pick         *)
(* requests served one at a time.                                          *)
(***************************************************************************)
DeepCatalog == [e \in Events |-> {1, 2, 5, 7}]

\* As InitDraft, for a league created with draft_rounds = 3 on the deep
\* catalog.  No event is left to the auto-assignment (line 254:
\* auto_count = 0), so start_draft inserts no pick.
InitThreeRounds ==
    /\ event_entries = DeepCatalog /\ invited = Users
    /\ status = "drafting"
    /\ draft_rounds = 3
    /\ members \in {M \in SUBSET invited : Commissioner \in M}
    /\ CapacityCheck(Cardinality(Events), Cardinality(members),
                     draft_rounds) = "none"
    /\ \E ord \in Orderings(members) :
          draft_position = ShuffledPositions(ord)
    /\ \E D \in DraftSamples(Cardinality(members), draft_rounds) :
          league_events = PlanRows(D)
    /\ ~AutoAssigns(draft_rounds, Cardinality(members))
    /\ draft_picks = {}
    /\ req = [p \in Procs |-> Idle]
    /\ response = [NoResponse EXCEPT !.op = "start_draft", !.detail = Ok]
    /\ now = 0

SpecThreeRounds == InitThreeRounds /\ [][NextSequential]_vars

(***************************************************************************)
(* The draft under a running clock: the specifications above hold the      *)
(* clock still.  Here time passes between the steps, and no two            *)
(* transactions begin at the same reading of the clock.                    *)
(***************************************************************************)
\* The last reading of the clock.
MaxNow == 3

\* Time passes.
Tick ==
    /\ now < MaxNow
    /\ now' = now + 1
    /\ response' = NoResponse
    /\ UNCHANGED <<event_entries, invited, status, draft_rounds, members,
                   draft_position, league_events, draft_picks, req>>

\* The clock has advanced since every transaction in flight or committed
\* began.
Fresh ==
    /\ \A q \in Procs : req[q].pc # "idle" => req[q].started < now
    /\ \A pk \in draft_picks : pk.picked_at < now

NextClock ==
    \/ Tick
    \/ \E p \in Procs :
          \/ \E u \in Users : Fresh /\ make_pick_require(p, u)
          \/ make_pick_members(p)
          \/ make_pick_picks(p)
          \/ \E k \in SentKeys, sent_name \in ClientNames :
                make_pick_insert(p, k, sent_name)
          \/ current_state_members(p)
          \/ current_state_picks(p)

SpecClock == InitDraft /\ [][NextClock]_vars

(***************************************************************************)
(* Properties.                                                             *)
(***************************************************************************)
\* The slot p finishes its request in this step.
Finishes(p) == req[p].pc # "idle" /\ req'[p].pc = "idle"

\* A make_pick request commits a row in this step.
PickCommits ==
    /\ \E p \in Procs : req[p].op = "make_pick" /\ req[p].pc = "insert"
                         /\ req'[p] # req[p]
    /\ draft_picks' # draft_picks

\* C1: at every moment a user holds at most one pick row per event of the
\* league, whatever the interleaving of start_draft, make_pick, join_league
\* and lock_league.
C1_OnePickPerUserPerEvent ==
    \A a, b \in draft_picks :
        (a.event_id = b.event_id /\ a.user_id = b.user_id) => a = b

\* Two members hold picks of one draft-mode event, and one of them holds a
\* pick of another event as well.
C1_Witness ==
    \E a, b, c \in draft_picks :
        /\ league_events[a.event_id].mode = "draft"
        /\ a.event_id = b.event_id /\ a.user_id # b.user_id
        /\ c.user_id = a.user_id /\ c.event_id # a.event_id

\* C2: at every moment an entry_key is held by at most one pick row per
\* event of the league, the rows start_draft inserts for the auto-assigned
\* events included.
C2_OnePickPerEntryPerEvent ==
    \A a, b \in draft_picks :
        (a.event_id = b.event_id /\ a.entry_key = b.entry_key) => a = b

\* An auto-assigned event and a draft-mode event both hold the picks of two
\* members.
C2_Witness ==
    \E a, b, c, d \in draft_picks :
        /\ league_events[a.event_id].mode = "auto"
        /\ a.event_id = b.event_id /\ a.user_id # b.user_id
        /\ league_events[c.event_id].mode = "draft"
        /\ c.event_id = d.event_id /\ c.user_id # d.user_id
\* C3: under every interleaving of concurrent make_pick requests, a pick
\* that commits is a pick of the current event by the member who is on the
\* clock, as the resolver gives them on the picks committed just before.
C3_CommitsOnTheClock ==
    [][\A p \in Procs :
          (req[p].op = "make_pick" /\ req'[p] # req[p]
              /\ draft_picks' # draft_picks)
          => LET state == CurrentState(members, draft_position,
                                       league_events, draft_picks)
             IN  /\ state.error = "none" /\ ~state.complete
                 /\ state.on_the_clock = req[p].user
                 /\ \E k \in SentKeys :
                       draft_picks' = draft_picks \cup
                           Stamped({PickRow(state.event, req[p].user, k, 0)},
                                   req[p].started)]_vars

\* A request passed its turn check, and a concurrent request has taken the
\* turn since: its user is no longer on the clock for its event.
C3_Witness ==
    \E p \in Procs :
        /\ req[p].op = "make_pick" /\ req[p].pc = "insert"
        /\ response.op = "make_pick" /\ response.detail = Ok
        /\ LET state == CurrentState(members, draft_position,
                                     league_events, draft_picks)
           IN  state.complete \/ state.event # req[p].event
                              \/ state.on_the_clock # req[p].user
\* C4: no make_pick request commits a pick when the status of the league is
\* not drafting, lock_league requests running concurrently included.
C4_CommitsOnlyWhenDrafting ==
    [][PickCommits => status = "drafting"]_vars

\* The pick row (event, entry_key) of a make_pick request that was answered
\* ok in the step before, while the request of slot p was past its turn
\* check for the same event.
JustTaken(p) ==
    {pk \in draft_picks :
        /\ response.op = "make_pick" /\ response.detail = Ok
        /\ req[p].op = "make_pick" /\ req[p].pc = "insert"
        /\ pk.event_id = req[p].event /\ pk.entry_key = response.entry_key}

\* C5: of two make_pick requests that run concurrently for the same
\* entry_key of the same event, one succeeds, the other is answered
\* EntryAlreadyTaken, and one pick row for that entry exists afterwards.
C5_SecondIsEntryAlreadyTaken ==
    [][\A p \in Procs :
          (JustTaken(p) # {} /\ Finishes(p)
              /\ response'.entry_key = response.entry_key)
          => /\ response'.detail = EntryAlreadyTaken
             /\ draft_picks' = draft_picks
             /\ Cardinality(JustTaken(p)) = 1]_vars

\* The draft-mode events of the plan.
DraftEvents == {e \in Events : league_events[e].mode = "draft"}

\* The number of committed picks of event e.
PickCount(e) == Cardinality(PicksForEvent(draft_picks, e))

\* The first event of the set E, in plan order, with fewer picks than
\* members; 0 if there is none.
FirstOpen(E) ==
    LET open == {e \in E : PickCount(e) < Cardinality(members)}
    IN  IF open = {} THEN 0
        ELSE CHOOSE e \in open : \A d \in open : e <= d

\* The resolver returns Complete if every event of E has as many picks as
\* the league has members, and otherwise InProgress for the first event of
\* E with fewer.
ResolvesOver(E) ==
    LET state == CurrentState(members, draft_position, league_events,
                              draft_picks)
    IN  state.error = "none" =>
            /\ state.complete <=>
                   \A e \in E : PickCount(e) = Cardinality(members)
            /\ ~state.complete => state.event = FirstOpen(E)

\* C6 as stated: the resolver returns Complete iff every draft-mode event
\* of the plan has as many picks as the league has members, and otherwise
\* InProgress for the first draft-mode event with fewer.
C6_CompleteIffAllFull == ResolvesOver(DraftEvents)

\* The draft-mode events with at least as many entries as the league has
\* members.
WalkedEvents ==
    {e \in DraftEvents : EntryCount(e) >= Cardinality(members)}

\* C6 over the events the resolver walks: it returns Complete iff every
\* draft-mode event that has at least as many entries as the league has
\* members has as many picks as members, and otherwise InProgress for the
\* first such event with fewer.
C6_CompleteIffWalkedFull == ResolvesOver(WalkedEvents)

\* The resolver puts on the clock, for its current event taken as the one
\* at 0-based index i(event) of its list, with k picks made and the N
\* members ordered by draft position: the member at place k + 1 and
\* direction forward when i is even, the member at place N - k and
\* direction reverse when i is odd.
SnakeOver(i) ==
    LET state == CurrentState(members, draft_position, league_events,
                              draft_picks)
        ms == MembersInDraftOrder(members, draft_position)
        N == Cardinality(members)
        k == PickCount(state.event)
    IN  (state.error = "none" /\ ~state.complete) =>
            IF i[state.event] % 2 = 0
            THEN state.on_the_clock = ms[k + 1]
                 /\ state.direction = "forward"
            ELSE state.on_the_clock = ms[N - k]
                 /\ state.direction = "reverse"

\* The 0-based index of every event among the events of E in plan order.
IndexAmong(E) == [e \in Events |-> Cardinality({d \in E : d < e})]

\* C7 as stated: the index i of the current event is its index among the
\* draft-mode events of the league.
C7_SnakeByDraftIndex == SnakeOver(IndexAmong(DraftEvents))

\* C7 over the events the resolver walks: the index i of the current event
\* is its index among the draft-mode events that have at least as many
\* entries as the league has members.
C7_SnakeByWalkedIndex == SnakeOver(IndexAmong(WalkedEvents))

\* C8: after every successful make_pick the resolver returns Complete or a
\* pair (event, member on the clock) other than the one it returned just
\* before the pick.
C8_PickAdvances ==
    [][PickCommits
       => LET before == CurrentState(members, draft_position,
                                     league_events, draft_picks)
              after == CurrentState(members', draft_position',
                                    league_events', draft_picks')
          IN  \/ after.error = "none" /\ after.complete
              \/ /\ after.error = "none"
                 /\ <<after.event, after.on_the_clock>> #
                        <<before.event, before.on_the_clock>>]_vars

\* The request of slot p leaves the loop of the resolver in this step.
Resolves(p) ==
    /\ req[p].op = "make_pick" /\ req[p].pc = "picks"
    /\ req'[p].pc # "picks"

\* C9: a make_pick request of a member for whom the resolver puts another
\* user on the clock is answered NotYourTurn, and the picks stay as they
\* are.
C9_NotYourTurn ==
    [][\A p \in Procs :
          (Resolves(p)
              /\ LET state == Walk(req[p].members, req[p].events,
                                   req[p].idx, draft_picks)
                 IN  ~state.complete /\ state.on_the_clock # req[p].user)
          => /\ req[p].user \in members
             /\ req'[p] = Idle
             /\ response'.op = "make_pick"
             /\ response'.detail = NotYourTurn
             /\ draft_picks' = draft_picks]_vars

\* A member who is not on the clock has been answered NotYourTurn.
C9_Witness ==
    /\ response.op = "make_pick" /\ response.detail = NotYourTurn
    /\ ~CurrentState(members, draft_position, league_events,
                     draft_picks).complete

\* A make_pick request of user u arrives in this step.
MakePickArrives(u) ==
    \/ response'.op = "make_pick" /\ response'.user = u
    \/ \E p \in Procs :
          /\ req[p].pc = "idle"
          /\ req'[p].op = "make_pick" /\ req'[p].user = u

\* C10: a make_pick request of a user who is not a member of the league is
\* answered NotAMember and no pick row is made, whatever the status of the
\* league and whoever is on the clock.
C10_NotAMember ==
    [][\A u \in Users \ members :
          MakePickArrives(u)
          => /\ response'.op = "make_pick"
             /\ response'.detail = NotAMember
             /\ req' = req
             /\ draft_picks' = draft_picks]_vars

\* A user who is not a member has been answered NotAMember while the draft
\* is under way and a member is on the clock.
C10_Witness ==
    /\ response.op = "make_pick" /\ response.detail = NotAMember
    /\ response.user \notin members
    /\ status = "drafting"
    /\ CurrentState(members, draft_position, league_events,
                    draft_picks).on_the_clock \in members
\* C11: a make_pick request of a member of a league whose status is lobby
\* or locked is answered DraftNotActive, and no pick row is added.
C11_DraftNotActive ==
    [][\A u \in members :
          (MakePickArrives(u) /\ status \in {"lobby", "locked"})
          => /\ response'.op = "make_pick"
             /\ response'.detail = DraftNotActive
             /\ req' = req
             /\ draft_picks' = draft_picks]_vars

\* A member has been answered DraftNotActive in a locked league whose draft
\* is not complete.
C11_Witness ==
    /\ response.op = "make_pick" /\ response.detail = DraftNotActive
    /\ response.user \in members
    /\ status = "locked"
    /\ ~CurrentState(members, draft_position, league_events,
                     draft_picks).complete
\* A lock_league request arrives in this step.
LockArrives ==
    \/ response'.op = "lock_league" /\ req' = req
    \/ \E p \in Procs :
          req[p].pc = "idle" /\ req'[p].op = "lock_league"

\* C12: the status of the league only moves from lobby to drafting, by
\* start_draft, and from drafting to locked, by lock_league; and a
\* lock_league on a league in lobby is rejected, the status unchanged.
C12_StatusMoves ==
    [][/\ status' # status
          => \/ /\ status = "lobby" /\ status' = "drafting"
                /\ response'.op = "start_draft" /\ response'.detail = Ok
             \/ /\ status = "drafting" /\ status' = "locked"
                /\ response'.op = "lock_league" /\ response'.detail = Ok
       /\ (LockArrives /\ status = "lobby")
          => /\ response'.op = "lock_league"
             /\ response'.detail \in {CannotLock, CommissionerOnly}
             /\ req' = req
             /\ status' = status]_vars

\* The league has been started, and a lock_league request has just locked
\* it.
C12_Witness ==
    /\ status = "locked"
    /\ response.op = "lock_league" /\ response.detail = Ok
    /\ draft_picks # {}
StartArrives ==
    \/ response'.op = "start_draft" /\ req' = req
    \/ \E p \in Procs :
          req[p].pc = "idle" /\ req'[p].op = "start_draft"

\* C14: a start_draft on a league whose status is drafting or locked is
\* rejected, and the draft positions, the plan, the picks and the status
\* stay as they are: a request that arrives then is turned away at once,
\* and a request that read lobby before the league was started neither
\* writes nor is answered 200.
C14_SecondStartRejected ==
    [][(status \in {"drafting", "locked"})
       => /\ StartArrives
             => /\ response'.op = "start_draft"
                /\ response'.detail \in {NotInLobby, CommissionerOnly}
                /\ req' = req
                /\ UNCHANGED <<draft_position, league_events, draft_picks,
                               status>>
          /\ \A p \in Procs :
                (req[p].op = "start_draft" /\ req'[p] # req[p])
                => /\ UNCHANGED <<draft_position, league_events,
                                  draft_picks, status>>
                   /\ Finishes(p) => response'.detail # Ok]_vars

\* A start_draft of the commissioner has been rejected in a league whose
\* draft is under way.
C14_Witness ==
    /\ response.op = "start_draft" /\ response.detail = NotInLobby
    /\ status = "drafting"
    /\ \E pk \in draft_picks : league_events[pk.event_id].mode = "draft"
\* C15: once start_draft has succeeded the plan has one row for every
\* catalog event, exactly draft_rounds of them in draft mode and all the
\* others in auto mode, and every row carries the sort order of its event
\* in the catalog.
C15_PlanCoversCatalog ==
    status # "lobby"
    => /\ \A e \in Events :
             /\ league_events[e].mode \in {"draft", "auto"}
             /\ league_events[e].sort_order = SortOrder(e)
       /\ Cardinality({e \in Events : league_events[e].mode = "draft"})
            = draft_rounds

\* start_draft has just succeeded, and its plan holds draft and auto events.
C15_Witness ==
    /\ response.op = "start_draft" /\ response.detail = Ok
    /\ status = "drafting"
    /\ \E e \in Events : league_events[e].mode = "auto"
    /\ \E e \in Events : league_events[e].mode = "draft"

\* C16: in every reachable state, every event planned in draft mode has
\* strictly more catalog entries than the league has members, also when
\* join_league requests interleave with start_draft.
C16_DraftEventsOutnumberMembers ==
    \A e \in Events :
        league_events[e].mode = "draft"
        => EntryCount(e) > Cardinality(members)

\* The request of slot p counts the members and the draftable events in
\* this step.
StartCounts(p) ==
    /\ req[p].op = "start_draft" /\ req[p].pc = "member_count"
    /\ req'[p] # req[p]

\* C17: a start_draft that finds fewer than draft_rounds catalog events
\* with more entries than the league has members fails with
\* InsufficientCapacity and writes nothing: a league in lobby stays in
\* lobby with no plan rows, no picks and every draft position null.
C17_InsufficientCapacity ==
    [][\A p \in Procs :
          (/\ StartCounts(p)
           /\ Cardinality({e \in Events :
                               EntryCount(e) > Cardinality(members)})
                < draft_rounds)
          => /\ Finishes(p)
             /\ response'.op = "start_draft"
             /\ response'.detail = InsufficientCapacity
             /\ UNCHANGED <<status, members, league_events, draft_picks,
                            draft_position>>
             /\ status = "lobby"
                => /\ status' = "lobby"
                   /\ league_events' = NoPlan
                   /\ draft_picks' = {}
                   /\ \A u \in Users : draft_position'[u] = 0]_vars

\* start_draft has just failed for lack of draftable events in a league of
\* two members that is still in lobby.
C17_Witness ==
    /\ response.op = "start_draft"
    /\ response.detail = InsufficientCapacity
    /\ status = "lobby" /\ league_events = NoPlan /\ draft_picks = {}
    /\ Cardinality(members) = 2

\* C18: make_pick applies its checks in the order status, membership,
\* completion, turn, entry validity, and answers with the error of the
\* first check that fails: whoever submits to a league that is not
\* drafting, a non-member included, gets DraftNotActive, and a non-member
\* gets NotAMember only from a drafting league.
C18_StatusBeforeMembership ==
    [][\A u \in Users :
          MakePickArrives(u)
          => /\ status # "drafting"
                => (response'.op = "make_pick"
                    /\ response'.detail = DraftNotActive)
             /\ (status = "drafting" /\ u \notin members)
                => (response'.op = "make_pick"
                    /\ response'.detail = NotAMember)]_vars

\* The request of slot p, which resolved its user on the clock of the
\* event req[p].event, looks up the entry key k in this step and is
\* refused or inserts its row, while its user is still on the clock of that
\* event.
LooksUp(p, k) ==
    /\ req[p].op = "make_pick" /\ req[p].pc = "insert"
    /\ \/ Finishes(p) /\ response'.op = "make_pick"
                      /\ response'.entry_key = k
       \/ req'[p].pc = "state_members" /\ req'[p].key = k
    /\ LET state == CurrentState(members, draft_position, league_events,
                                 draft_picks)
       IN  /\ state.error = "none" /\ ~state.complete
           /\ state.event = req[p].event
           /\ state.on_the_clock = req[p].user

\* C19: a make_pick of the member on the clock with an entry that is in
\* the catalog of the current event, but whose is_team is not the event's
\* is_team_event, is answered InvalidEntry and no pick row is made.
C19_TeamFlagMismatch ==
    [][\A p \in Procs : \A k \in SentKeys :
          (/\ LooksUp(p, k)
           /\ k \in EntryKeys(req[p].event)
           /\ IsTeam(req[p].event, k) # IsTeamEvent(req[p].event))
          => /\ response'.detail = InvalidEntry
             /\ draft_picks' = draft_picks]_vars

C21_EntryAlreadyTaken ==
    [][\A p \in Procs : \A k \in SentKeys :
          (/\ LooksUp(p, k)
           /\ \E pk \in draft_picks :
                 /\ pk.event_id = req[p].event /\ pk.entry_key = k
                 /\ pk.user_id # req[p].user)
          => /\ response'.detail = EntryAlreadyTaken
             /\ draft_picks' = draft_picks]_vars

\* C22: once the resolver returns Complete for the league it returns
\* Complete ever after, no pick row is added any more, and every make_pick
\* request that resolves the state from then on is answered DraftComplete.
C22_CompleteIsFinal ==
    [][LET before == CurrentState(members, draft_position, league_events,
                                  draft_picks)
           after == CurrentState(members', draft_position', league_events',
                                 draft_picks')
       IN  (before.error = "none" /\ before.complete)
           => /\ after.error = "none" /\ after.complete
              /\ draft_picks' = draft_picks
              /\ \A p \in Procs :
                    (/\ req[p].op = "make_pick"
                     /\ req[p].pc \in {"members", "picks"}
                     /\ req'[p] # req[p])
                    => \/ req'[p].pc = "picks"
                       \/ /\ Finishes(p)
                          /\ response'.op = "make_pick"
                          /\ response'.detail = DraftComplete]_vars

\* C23: whenever at least one member of the league has a null draft
\* position the resolver fails with DraftNotStarted and returns no state.
C23_NullPositionNotStarted ==
    (\E u \in members : draft_position[u] = 0)
    => CurrentState(members, draft_position, league_events,
                    draft_picks).error = DraftNotStarted

\* C24: the entry_name of every committed pick of a draft event is the
\* entry_name the catalog has for the event and entry_key of the pick,
\* whatever entry_name the client sent.
C24_CanonicalEntryName ==
    \A pk \in draft_picks :
        league_events[pk.event_id].mode = "draft"
        => /\ pk.entry_key \in EntryKeys(pk.event_id)
           /\ pk.entry_name = CatalogName(pk.event_id, pk.entry_key)

\* A make_pick has just committed a row whose entry_name is none of the
\* texts a client sends.
C24_Witness ==
    /\ response.op = "make_pick" /\ response.detail = Ok
    /\ \E pk \in draft_picks :
          /\ league_events[pk.event_id].mode = "draft"
          /\ pk.entry_key = response.entry_key
          /\ pk.entry_name \notin ClientNames

\* C25: a make_pick that committed its row answers ok with the entry_key of
\* the row and, when no request has written since its commit, with the
\* state the resolver gives on the tables that hold the row.
C25_ReturnsNewState ==
    [][\A p \in Procs :
          (/\ req[p].op = "make_pick"
           /\ req[p].pc \in {"state_members", "state_picks"}
           /\ Finishes(p)
           /\ req[p].after = <<members, draft_position, league_events,
                               draft_picks>>)
          => /\ response'.op = "make_pick" /\ response'.detail = Ok
             /\ response'.entry_key = req[p].key
             /\ \E pk \in draft_picks :
                   /\ pk.event_id = req[p].event
                   /\ pk.user_id = req[p].user
                   /\ pk.entry_key = req[p].key
             /\ response'.state = CurrentState(members, draft_position,
                                               league_events, draft_picks)
             /\ response'.state.error = "none"]_vars

\* A make_pick has just answered ok with the state of the tables, in which
\* the current event holds the new row and another member is on the clock.
C25_Witness ==
    /\ response.op = "make_pick" /\ response.detail = Ok
    /\ response.state = CurrentState(members, draft_position, league_events,
                                     draft_picks)
    /\ ~response.state.complete
    /\ \E pk \in draft_picks :
          /\ pk.entry_key = response.entry_key
          /\ pk.event_id = response.state.event
          /\ pk.user_id # response.state.on_the_clock

\* A draft_state request of user u arrives in this step.
DraftStateArrives(u) ==
    \/ response'.op = "draft_state" /\ response'.user = u
    \/ \E p \in Procs :
          /\ req[p].pc = "idle"
          /\ req'[p].op = "draft_state" /\ req'[p].user = u

\* C26: draft_state only reads: its steps leave the roster, the positions,
\* the plan, the picks and the status as they are; a call during which no
\* request writes returns what the resolver gives on the tables, so two
\* calls with no write in between return the same; and a caller who is not
\* a member is answered NotAMember.
C26_DraftStateReadOnly ==
    [][/\ \A u \in Users :
             DraftStateArrives(u)
             => /\ UNCHANGED <<members, draft_position, league_events,
                               draft_picks, status>>
                /\ u \notin members
                   => /\ response'.op = "draft_state"
                      /\ response'.detail = NotAMember
                      /\ response'.state = NoState
                      /\ req' = req
       /\ \A p \in Procs :
             (req[p].op = "draft_state" /\ req'[p] # req[p])
             => /\ UNCHANGED <<members, draft_position, league_events,
                               draft_picks, status>>
                /\ (/\ Finishes(p)
                    /\ req[p].after = <<members, draft_position,
                                        league_events, draft_picks>>)
                   => LET state == CurrentState(members, draft_position,
                                                league_events, draft_picks)
                      IN  /\ response'.op = "draft_state"
                          /\ IF state.error = "none"
                             THEN /\ response'.detail = Ok
                                  /\ response'.state = state
                             ELSE /\ response'.detail = state.error
                                  /\ response'.state = NoState]_vars

\* draft_state has just returned the state of a draft in which picks of a
\* draft event were made and a member is on the clock.
C26_Witness ==
    /\ response.op = "draft_state" /\ response.detail = Ok
    /\ response.state = CurrentState(members, draft_position, league_events,
                                     draft_picks)
    /\ ~response.state.complete
    /\ \E pk \in draft_picks : pk.event_id = response.state.event

\* C27: the events the resolver walks are exactly the draft-mode events of
\* the plan, in plan order: the current event of an InProgress state is a
\* draft-mode event, and every draft-mode event before it in plan order
\* holds a pick of every member.
C27_WalksAllDraftEvents ==
    status # "lobby"
    => LET state == CurrentState(members, draft_position, league_events,
                                 draft_picks)
           walked == EventsInOrder(league_events, Cardinality(members))
       IN  /\ walked = SortBy(DraftEvents,
                              [e \in Events |-> league_events[e].sort_order])
           /\ (state.error = "none" /\ ~state.complete)
              => /\ state.event \in DraftEvents
                 /\ \A e \in DraftEvents :
                       league_events[e].sort_order
                           < league_events[state.event].sort_order
                       => PickCount(e) >= Cardinality(members)

\* C28: of two picks of one event, the one that committed earlier has the
\* strictly smaller picked_at, under every interleaving of make_pick
\* requests: a pick that commits has a picked_at greater than that of every
\* pick of its event committed before.
C28_PickedAtFollowsCommit ==
    [][PickCommits
       => \A new \in draft_picks' \ draft_picks : \A old \in draft_picks :
             old.event_id = new.event_id => old.picked_at < new.picked_at]_vars

\* C29: start_draft is all-or-nothing: in every state the league is either
\* in lobby with no plan row, no pick and every position null, or in
\* drafting/locked with a complete plan and every member's position
\* assigned.
C29_StartAllOrNothing ==
    \/ /\ status = "lobby"
       /\ league_events = NoPlan
       /\ draft_picks = {}
       /\ \A u \in members : draft_position[u] = 0
    \/ /\ status \in {"drafting", "locked"}
       /\ \A e \in Events : league_events[e].mode \in {"draft", "auto"}
       /\ \A u \in members : draft_position[u] # 0

\* The members that hold a draft position in the positions pos.
Positioned(pos) == {u \in Users : pos[u] # 0}

\* C30: of the start_draft requests that run concurrently on a lobby league
\* at most one succeeds: a start_draft answers Ok only by committing on a
\* league that is in lobby with no plan row, no pick and no position, and
\* it leaves one plan row for every event of the catalog with exactly
\* draft_rounds rows in draft mode, one permutation of positions, and its
\* own auto-assigned picks, at most one for a member and for an entry of an
\* event.
C30_OneStartSucceeds ==
    [][\A p \in Procs :
         (req[p].op = "start_draft" /\ Finishes(p) /\ response'.detail = Ok)
         => /\ status = "lobby" /\ status' = "drafting"
            /\ league_events = NoPlan
            /\ draft_picks = {}
            /\ draft_position = NoPositions
            /\ \A q \in Procs \ {p} :
                  req[q].op = "start_draft" => req[q].pc # "commit"
            /\ \A e \in Events : league_events'[e].mode \in {"draft", "auto"}
            /\ Cardinality({e \in Events : league_events'[e].mode = "draft"})
                  = draft_rounds
            /\ {draft_position'[u] : u \in Positioned(draft_position')}
                  = 1..Cardinality(Positioned(draft_position'))
            /\ draft_picks' = Stamped(req[p].picks, req[p].started)
            /\ \A a, b \in draft_picks' :
                  (a.event_id = b.event_id
                      /\ (a.user_id = b.user_id \/ a.entry_key = b.entry_key))
                  => a = b
            /\ \A a \in draft_picks' : league_events'[a.event_id].mode = "auto"
      ]_vars

\* The other of two concurrent start_draft requests has failed on the plan
\* of the one that committed.
C30_Witness ==
    /\ response.op = "start_draft"
    /\ response.detail \in {AlreadyGenerated, ServerError}
    /\ status = "drafting"
    /\ league_events # NoPlan
    /\ draft_picks # {}

\* C31: picks are append-only: across start_draft, join_league, make_pick,
\* lock_league and draft_state, a pick row of one state is, unchanged, a
\* row of the next.
C31_PicksAppendOnly == [][draft_picks \subseteq draft_picks']_vars

\* A locked league holds a pick a member made, and a draft_state request
\* has been answered since.
C31_Witness ==
    /\ status = "locked"
    /\ \E pk \in draft_picks : league_events[pk.event_id].mode = "draft"
    /\ \E pk \in draft_picks : league_events[pk.event_id].mode = "auto"
    /\ response.op = "draft_state" /\ response.detail = Ok

\* The draft-mode event of a league of one round.
TheDraftEvent == CHOOSE e \in Events : league_events[e].mode = "draft"

\* The member whose position is the number of picks of event e plus one.
NextInLine(u, e) ==
    /\ u \in members
    /\ draft_position[u] = Cardinality(PicksForEvent(draft_picks, e)) + 1

PlaceOf(evs, e) == CHOOSE i \in 1..Len(evs) : evs[i] = e

\* The position that opens the event at place i: 1 at the odd places
\* (even indexes), N at the even ones.
OpeningPosition(i, N) == IF i % 2 = 1 THEN 1 ELSE N

\* C33: at every round boundary the member who made the last pick of draft
\* event i is on the clock for the first pick of draft event i+1 (position
\* N after an even-indexed event, position 1 after an odd-indexed one), and
\* the second pick of event i+1 belongs to the adjacent position (N-1
\* resp. 2).
C33_SnakeAtBoundary ==
    [][PickCommits
       => LET N == Cardinality(members)
              evs == EventsInOrder(league_events, N)
              state == CurrentState(members, draft_position, league_events,
                                    draft_picks')
          IN  \A new \in {pk \in draft_picks' \ draft_picks :
                              pk.event_id \in Range(evs)} :
                LET i == PlaceOf(evs, new.event_id)
                    c == Cardinality(PicksForEvent(draft_picks', new.event_id))
                IN  /\ (c = N /\ i < Len(evs))
                       => /\ draft_position[new.user_id]
                                = OpeningPosition(i + 1, N)
                          /\ state.error = "none" /\ ~state.complete
                          /\ state.event = evs[i + 1]
                          /\ state.event_index = i
                          /\ state.on_the_clock = new.user_id
                    /\ (c = 1 /\ i > 1 /\ N > 1)
                       => /\ draft_position[new.user_id]
                                = OpeningPosition(i, N)
                          /\ state.error = "none" /\ ~state.complete
                          /\ state.event = new.event_id
                          /\ draft_position[state.on_the_clock]
                                = IF i % 2 = 0 THEN N - 1 ELSE 2
      ]_vars

\* C34: join_league never adds a member row to a league whose status is not
\* lobby, under every interleaving of join_league with start_draft: a step
\* that adds a member is taken in a lobby league, and leaves no member of a
\* drafting league without a draft position.
C34_NoLateJoin ==
    [][members' # members
       => /\ status = "lobby"
          /\ status' # "lobby" => \A u \in members' : draft_position'[u] # 0
      ]_vars

\* The state draft_state reports on the tables as they are has the user u
\* on the clock.
OnTheClock(u) ==
    LET state == CurrentState(members, draft_position, league_events,
                              draft_picks)
    IN  state.error = "none" /\ ~state.complete /\ state.on_the_clock = u

\* The event of the state draft_state reports on the tables as they are.
CurrentEvent ==
    CurrentState(members, draft_position, league_events, draft_picks).event

\* C35: if draft_state reports user U on the clock for event E and no write
\* intervenes, a make_pick of U with a catalog entry of E that nobody holds
\* succeeds and adds exactly one pick row, for (E, U, that entry): the
\* request that arrives on the report is taken on, none of its steps on the
\* unchanged tables turns it away, and its insert adds that row alone.
C35_ReportedTurnIsAccepted ==
    [][/\ \A u \in Users :
            (/\ response.op = "draft_state" /\ response.detail = Ok
             /\ response.state = CurrentState(members, draft_position,
                                              league_events, draft_picks)
             /\ OnTheClock(u)
             /\ MakePickArrives(u))
            => \E p \in Procs : /\ req'[p].op = "make_pick"
                                /\ req'[p].user = u
                                /\ req'[p].pc = "members"
       /\ \A p \in Procs :
            (/\ req[p].op = "make_pick" /\ req'[p] # req[p]
             /\ OnTheClock(req[p].user))
            => /\ req[p].pc = "members" => req'[p].pc = "picks"
               /\ (/\ req[p].pc = "picks"
                   /\ req[p].members
                         = MembersInDraftOrder(members, draft_position))
                  => \/ req'[p].pc = "picks"
                     \/ req'[p].pc = "insert" /\ req'[p].event = CurrentEvent
               /\ (req[p].pc = "insert" /\ req[p].event = CurrentEvent)
                  => \/ /\ req'[p].pc = "state_members"
                        /\ req'[p].key \in EntryKeys(CurrentEvent)
                        /\ \E at \in {req[p].started} :
                              draft_picks' = draft_picks \cup
                                 Stamped({PickRow(CurrentEvent, req[p].user,
                                                  req'[p].key, 0)}, at)
                        /\ Cardinality(draft_picks')
                              = Cardinality(draft_picks) + 1
                     \/ /\ Finishes(p)
                        /\ draft_picks' = draft_picks
                        /\ \/ response'.entry_key \notin EntryKeys(CurrentEvent)
                           \/ \E pk \in PicksForEvent(draft_picks, CurrentEvent) :
                                 pk.entry_key = response'.entry_key
      ]_vars

(***************************************************************************)
(* events.py: the draft context of the league event summary.               *)
(***************************************************************************)
\* events.py 36-45: _get_events_in_order selects every event of the
\* catalog, order by sort_order.
CatalogEventsInOrder == SortBy(Events, [e \in Events |-> SortOrder(e)])

RECURSIVE ContextWalk(_, _, _, _)
\* events.py 96-109: the loop of _compute_draft_context from place idx on.
ContextWalk(ms, evs, idx, picks) ==
    IF idx > Len(evs)
    THEN [draft_started |-> TRUE, complete |-> TRUE, event |-> 0,
          event_index |-> -1, direction |-> "none", on_the_clock |-> 0]
    ELSE LET k == Cardinality(PicksForEvent(picks, evs[idx]))
             forward == ((idx - 1) % 2 = 0)
             order == IF forward THEN ms ELSE Reverse(ms)
         IN  IF k < Len(ms)
             THEN [draft_started |-> TRUE, complete |-> FALSE,
                   event |-> evs[idx], event_index |-> idx - 1,
                   direction |-> IF forward THEN "forward" ELSE "reverse",
                   on_the_clock |-> order[k + 1]]
             ELSE ContextWalk(ms, evs, idx + 1, picks)

\* events.py 83-111: _compute_draft_context on one state of the tables.
ComputeDraftContext(mem, pos, picks) ==
    LET ms == MembersInDraftOrder(mem, pos)
    IN  IF ms = <<>> \/ pos[ms[1]] = 0
        THEN [draft_started |-> FALSE, complete |-> FALSE, event |-> 0,
              event_index |-> -1, direction |-> "none", on_the_clock |-> 0]
        ELSE ContextWalk(ms, CatalogEventsInOrder, 1, picks)

\* C36: once the draft has started, the draft context of the league event
\* summary agrees with the state of draft_state: the same current event,
\* event index, direction, member on the clock and completion.
C36_ContextAgreesWithState ==
    LET state == CurrentState(members, draft_position, league_events,
                              draft_picks)
        context == ComputeDraftContext(members, draft_position, draft_picks)
    IN  (status # "lobby" /\ state.error = "none")
        => /\ context.draft_started
           /\ context.complete = state.complete
           /\ context.event = state.event
           /\ context.event_index = state.event_index
           /\ context.direction = state.direction
           /\ context.on_the_clock = state.on_the_clock

\* C37: draft events are filled in plan order and never over-filled: each
\* draft-mode event has at most N picks (N the number of members), and a
\* draft-mode event has a pick only if every draft-mode event before it in
\* plan order has exactly N picks.
C37_FilledInPlanOrder ==
    LET N == Cardinality(members)
    IN  \A e \in DraftEvents :
           /\ PickCount(e) <= N
           /\ PickCount(e) > 0
              => \A d \in DraftEvents :
                    league_events[d].sort_order < league_events[e].sort_order
                    => PickCount(d) = N

\* The draft-mode events of the plan, in plan order.
DraftEventsInOrder ==
    SortBy(DraftEvents, [e \in Events |-> league_events[e].sort_order])

\* The members in the order in which they pick in the draft-mode event at
\* place i (from 1) of the plan: the roster order at the odd places (even
\* indexes), reversed at the even ones.
PickingOrder(i) ==
    LET ms == MembersInDraftOrder(members, draft_position)
    IN  IF i % 2 = 1 THEN ms ELSE Reverse(ms)

\* C38: the members who have picked in the draft-mode event at index i are
\* exactly the first k members of that event's direction-adjusted order
\* (roster order for even i, reversed for odd i), where k is the number of
\* picks of the event.
C38_PickersArePrefix ==
    \A i \in 1..Len(DraftEventsInOrder) :
       LET e == DraftEventsInOrder[i]
           k == PickCount(e)
       IN  /\ k <= Cardinality(members)
           /\ {pk.user_id : pk \in PicksForEvent(draft_picks, e)}
                 = {PickingOrder(i)[j] : j \in 1..k}

(***************************************************************************)
(* The draft with the member on the clock submitting: the make_pick        *)
(* requests come from the member on the clock, one at a time, with a       *)
(* catalog entry of the current event that nobody holds, in every          *)
(* interleaving with the join_league and start_draft requests that arrive  *)
(* while the league is in lobby (those that arrive later are turned away   *)
(* by their first statement and write nothing).  The league is not locked. *)
(***************************************************************************)
\* The catalog entry k of event e is held by nobody.
FreeEntry(e, k) ==
    /\ k \in EntryKeys(e)
    /\ \A pk \in PicksForEvent(draft_picks, e) : pk.entry_key # k

\* A make_pick request of the member on the clock arrives, when the
\* make_pick request before it was answered.
TurnArrives(p) ==
    /\ \A q \in Procs : req[q].op # "make_pick"
    /\ \E u \in Users : OnTheClock(u) /\ make_pick_require(p, u)

\* The next statement of the request that slot p serves.
Continues(p) ==
    \/ make_pick_members(p)
    \/ make_pick_picks(p)
    \/ \E k \in SentKeys, sent_name \in ClientNames :
          /\ req[p].op = "make_pick" /\ req[p].pc = "insert"
          /\ FreeEntry(req[p].event, k)
          /\ make_pick_insert(p, k, sent_name)
    \/ current_state_members(p)
    \/ current_state_picks(p)
    \/ join_league_insert(p)
    \/ start_draft_member_count(p)
    \/ start_draft_already(p)
    \/ start_draft_plan(p)
    \/ start_draft_auto_enough(p)
    \/ start_draft_auto_short(p)
    \/ start_draft_positions(p)
    \/ start_draft_commit(p)

NextLive ==
    \E p \in Procs :
        \/ TurnArrives(p)
        \/ \E u \in Users : status = "lobby" /\ join_league_status(p, u)
        \/ \E u \in Users : status = "lobby" /\ start_draft_status(p, u)
        \/ Continues(p)

\* The server runs every handler to its end: a request that is being
\* served executes its next statement.
SpecLive ==
    /\ InitAll
    /\ [][NextLive]_vars
    /\ \A p \in Procs : WF_vars(Continues(p))

\* The league is drafting and the state is InProgress.
Drafting ==
    LET state == CurrentState(members, draft_position, league_events,
                              draft_picks)
    IN  status = "drafting" /\ state.error = "none" /\ ~state.complete

\* The member on the clock submits a catalog entry of the current event
\* that nobody holds: the insert of its make_pick request is executed.
Submits ==
    \E p \in Procs :
       /\ req[p].op = "make_pick" /\ req[p].pc = "insert"
       /\ OnTheClock(req[p].user)
       /\ req[p].event = CurrentEvent
       /\ req'[p] # req[p]

\* C39: the draft cannot get stuck and finishes: in every InProgress state
\* the current event has a catalog entry that nobody holds, and if the
\* member on the clock submits such an entry again and again, the state
\* becomes Complete.
C39_DraftFinishes ==
    /\ [](Drafting => \E k \in EntryKeys(CurrentEvent) :
                         FreeEntry(CurrentEvent, k))
    /\ []<><<Submits>>_vars => (Drafting ~> ~Drafting)

\* C40: once start_draft has committed, no operation changes a member's
\* draft position or a plan row: the steps of make_pick, lock_league,
\* join_league, draft_state and of a start_draft that is rejected leave
\* the positions and the plan of a league that is not in lobby unchanged.
C40_PlanAndPositionsFrozen ==
    [][status # "lobby"
       => /\ league_events' = league_events
          /\ draft_position' = draft_position]_vars

\* A second start_draft was rejected in a drafting league in which picks
\* were made.
C40_Witness ==
    /\ status # "lobby"
    /\ response.op = "start_draft"
    /\ response.detail \in {NotInLobby, AlreadyGenerated, ServerError}
    /\ \E pk \in draft_picks : league_events[pk.event_id].mode = "draft"

=============================================================================
